---- MODULE Spec2Model ----
(***************************************************************************)
(* The finances dashboard of allianceauth-corptools-finances               *)
(* (src/finances/views.py, src/finances/auth_hooks.py).                    *)
(*                                                                         *)
(* Representation.                                                         *)
(*   - A query-string value that the view parses (days, start_date,        *)
(*     end_date, divisions, division_id) is the tuple of its code points;  *)
(*     a value the view only compares (ref types, drill) is a string.      *)
(*     Every parameter is the list of the values given for its             *)
(*     key, as in a QueryDict: <<>> is an absent key, get() reads the last *)
(*     value and getlist() the whole list.                                 *)
(*   - An instant is a number of ticks since the proleptic Gregorian day   *)
(*     0, TicksPerDay ticks to the day.  An aware datetime is a record     *)
(*     [t, off]: the instant and the UTC offset (in ticks) of its tzinfo;  *)
(*     datetimes compare by t, and .date() reads the date at off.          *)
(*   - A Decimal amount with two places is its integer number of           *)
(*     hundredths.                                                         *)
(*   - The view runs under autocommit, with no transaction around it:   *)
(*     each of its queries reads the database as it is when the query     *)
(*     runs, and the lazy division querysets are evaluated again at each  *)
(*     use.  A request is one step that takes, besides the query string,  *)
(*     what other clients do while it runs: the journal rows they commit, *)
(*     each with the query before which it is committed, and the          *)
(*     divisions get_visible gives at each evaluation.  Rows are only     *)
(*     added to the journal, and a row's own visibility does not change   *)
(*     during a request.                                                  *)
(***************************************************************************)
EXTENDS Integers, Sequences, FiniteSets

VARIABLES
    perms,        \* the permissions request.user holds
    tzOffset,     \* UTC offset of the current timezone (settings.TIME_ZONE), in ticks
    now,          \* timezone.now(), in ticks
    visibleDivs,  \* ids of CorporationWalletDivision.get_visible(request.user)
    authenticated,\* request.user.is_authenticated
    journal,      \* the CorporationWalletJournalEntry rows in the database
    commit,       \* what other database clients did while the request ran
    served,       \* "none", "dashboard" or "menu": what this request ran
    request,      \* the query string of the request served
    response      \* what the view (or the menu hook) returned

vars == <<perms, authenticated, tzOffset, now, visibleDivs, journal, commit, served,
         request, response>>

(***************************************************************************)
(* Bounds of the model.                                                    *)
(***************************************************************************)
TicksPerDay == 4
MaxEntries == 2
MaxListLen == 2

(***************************************************************************)
(* Text: a str is the tuple of its code points.  int(), date.fromisoformat(). *)
(***************************************************************************)
\* The ASCII characters U+0020..U+005F and U+0061..U+007E, in code point order.
AsciiToUnderscore ==
    <<
       " ", "!", "\"", "#", "$", "%", "&", "'", "(", ")", "*", "+",
       ",", "-", ".", "/", "0", "1", "2", "3", "4", "5", "6", "7",
       "8", "9", ":", ";", "<", "=", ">", "?", "@", "A", "B", "C",
       "D", "E", "F", "G", "H", "I", "J", "K", "L", "M", "N", "O",
       "P", "Q", "R", "S", "T", "U", "V", "W", "X", "Y", "Z", "[",
       "\\", "]", "^", "_" >>

AsciiFromLowerA ==
    <<
       "a", "b", "c", "d", "e", "f", "g", "h", "i", "j", "k", "l",
       "m", "n", "o", "p", "q", "r", "s", "t", "u", "v", "w", "x",
       "y", "z", "{", "|", "}", "~" >>

\* ord(ch) of a printable ASCII character.
Ord(ch) ==
    IF \E i \in 1..Len(AsciiToUnderscore) : AsciiToUnderscore[i] = ch
    THEN 31 + (CHOOSE i \in 1..Len(AsciiToUnderscore) : AsciiToUnderscore[i] = ch)
    ELSE 96 + (CHOOSE i \in 1..Len(AsciiFromLowerA) : AsciiFromLowerA[i] = ch)

\* The str spelled by a tuple of printable ASCII characters.
Text(chars) == [i \in 1..Len(chars) |-> Ord(chars[i])]

\* The characters the parsers and isoformat() name.
CharZero == Ord("0")
CharNine == Ord("9")
CharHyphen == Ord("-")
CharPlus == Ord("+")
CharUnderscore == Ord("_")
CharW == Ord("W")

\* The code points of the digit zero of every decimal-digit run of Unicode (category
\* Nd): the nine code points after each are its digits one to nine.
UnicodeDigitZeros ==
    {
      48, 1632, 1776, 1984, 2406, 2534, 2662, 2790, 2918, 3046,
      3174, 3302, 3430, 3558, 3664, 3792, 3872, 4160, 4240, 6112,
      6160, 6470, 6608, 6784, 6800, 6992, 7088, 7232, 7248, 42528,
      43216, 43264, 43472, 43504, 43600, 44016, 65296, 66720, 68912, 69734,
      69872, 69942, 70096, 70384, 70736, 70864, 71248, 71360, 71472, 71904,
      72016, 72784, 73040, 73120, 92768, 92864, 93008, 120782, 120792, 120802,
      120812, 120822, 123200, 123632, 125264, 130032 }

\* The characters int() converts to a decimal digit, ASCII or not.
IsDigit(c) ==
    \/ c >= CharZero /\ c <= CharNine
    \/ \E z \in UnicodeDigitZeros : c >= z /\ c <= z + 9

DigitVal(c) == c - (CHOOSE z \in UnicodeDigitZeros : c >= z /\ c <= z + 9)

\* The whitespace int() strips: TAB, LF, VT, FF, CR, space, and the non-ASCII
\* characters with str.isspace() (U+001C..U+001F are kept, and make int() raise).
IntWhitespace ==
    { 9, 10, 11, 12, 13, 32, 133, 160, 5760,
      8192, 8193, 8194, 8195, 8196, 8197, 8198, 8199, 8200, 8201, 8202,
      8232, 8233, 8239, 8287, 12288 }

IsSpace(c) == c \in IntWhitespace

RECURSIVE LStrip(_)
LStrip(s) ==
    IF s /= <<>> /\ IsSpace(Head(s)) THEN LStrip(Tail(s)) ELSE s

RECURSIVE RStrip(_)
RStrip(s) ==
    IF s /= <<>> /\ IsSpace(s[Len(s)]) THEN RStrip(SubSeq(s, 1, Len(s) - 1)) ELSE s

Strip(s) == RStrip(LStrip(s))

\* The value of a digit string with single underscores between digits removed.
RECURSIVE DigitsValue(_)
DigitsValue(s) ==
    IF s = <<>> THEN 0
    ELSE LET c == s[Len(s)]
             front == SubSeq(s, 1, Len(s) - 1)
         IN  IF c = CharUnderscore THEN DigitsValue(front)
             ELSE DigitsValue(front) * 10 + DigitVal(c)

\* Python's integer literal body: digits, with single underscores only between digits.
IsIntBody(s) ==
    /\ s /= <<>>
    /\ \A i \in 1..Len(s) : IsDigit(s[i]) \/ s[i] = CharUnderscore
    /\ IsDigit(s[1]) /\ IsDigit(s[Len(s)])
    /\ \A i \in 1..(Len(s) - 1) : ~(s[i] = CharUnderscore /\ s[i + 1] = CharUnderscore)

NoInt == [ok |-> FALSE, val |-> 0]

\* sys.int_max_str_digits: int() raises ValueError for a str of more digits.
IntMaxStrDigits == 4300

\* The digits of s, underscores and sign left out, as int() counts them.
DigitCount(s) == Cardinality({i \in 1..Len(s) : IsDigit(s[i])})

\* int(value) of a str: [ok |-> TRUE, val] or, where int raises ValueError, NoInt.
IntOfStr(s) ==
    LET t == Strip(s)
        signed == t /= <<>> /\ Head(t) \in {CharPlus, CharHyphen}
        body == IF signed THEN Tail(t) ELSE t
    IN  IF IsIntBody(body) /\ DigitCount(body) <= IntMaxStrDigits
        THEN [ok |-> TRUE,
              val |-> IF signed /\ Head(t) = CharHyphen THEN 0 - DigitsValue(body)
                      ELSE DigitsValue(body)]
        ELSE NoInt

IsLeap(y) == y % 4 = 0 /\ (y % 100 /= 0 \/ y % 400 = 0)

DaysInMonth(y, m) ==
    IF m = 2 THEN (IF IsLeap(y) THEN 29 ELSE 28)
    ELSE IF m \in {4, 6, 9, 11} THEN 30 ELSE 31

\* Days before the first of month m in a common year.
DaysBeforeMonthTable == <<0, 31, 59, 90, 120, 151, 181, 212, 243, 273, 304, 334>>

DaysBeforeMonth(y, m) ==
    DaysBeforeMonthTable[m] + (IF m > 2 /\ IsLeap(y) THEN 1 ELSE 0)

DaysBeforeYear(y) ==
    (y - 1) * 365 + ((y - 1) \div 4) - ((y - 1) \div 100) + ((y - 1) \div 400)

\* date(y, m, d).toordinal()
Ordinal(y, m, d) == DaysBeforeYear(y) + DaysBeforeMonth(y, m) + d

\* date.max.toordinal(): 9999-12-31.
MaxOrdinal == Ordinal(9999, 12, 31)

NoDate == [ok |-> FALSE, ord |-> 0]

\* The number of bytes of the character in UTF-8.
Utf8Len(c) == IF c < 128 THEN 1 ELSE IF c < 2048 THEN 2 ELSE IF c < 65536 THEN 3 ELSE 4

RECURSIVE Utf8Size(_)
\* The length fromisoformat tests: that of the UTF-8 encoding of the str.
Utf8Size(s) == IF s = <<>> THEN 0 ELSE Utf8Len(Head(s)) + Utf8Size(Tail(s))

\* The character at position i (from 1), NUL past the end as in the C string.
CharAt(s, i) == IF i <= Len(s) THEN s[i] ELSE 0

\* parse_digits: the n characters from position i are ASCII digits.
AsciiDigits(s, i, n) ==
    \A k \in i..(i + n - 1) : CharAt(s, k) >= CharZero /\ CharAt(s, k) <= CharNine

\* The ordinal of the Monday that starts ISO week 1 of the year.
IsoWeek1Monday(y) ==
    LET first_day == Ordinal(y, 1, 1)
        first_weekday == (first_day + 6) % 7
        week1_monday == first_day - first_weekday
    IN  IF first_weekday > 3 THEN week1_monday + 7 ELSE week1_monday

\* An ISO year has a week 53 when it starts on a Thursday, or on a Wednesday and
\* is a leap year.
HasWeek53(y) ==
    LET first_weekday == (Ordinal(y, 1, 1) + 6) % 7
    IN  first_weekday = 3 \/ (first_weekday = 2 /\ IsLeap(y))

\* The date of ISO year, week and weekday, where it is one.
IsoToDate(y, week, weekday) ==
    IF /\ y >= 1
       /\ week >= 1 /\ (week <= 52 \/ (week = 53 /\ HasWeek53(y)))
       /\ weekday >= 1 /\ weekday <= 7
    THEN LET ord == IsoWeek1Monday(y) + (week - 1) * 7 + (weekday - 1)
         IN  IF ord <= MaxOrdinal THEN [ok |-> TRUE, ord |-> ord] ELSE NoDate
    ELSE NoDate

\* The calendar form YYYY-MM-DD or YYYYMMDD, read from the character after the year.
CalendarDate(s, y, uses_separator, p) ==
    IF /\ AsciiDigits(s, p, 2)
       /\ uses_separator => CharAt(s, p + 2) = CharHyphen
       /\ AsciiDigits(s, IF uses_separator THEN p + 3 ELSE p + 2, 2)
    THEN LET m == DigitsValue(SubSeq(s, p, p + 1))
             q == IF uses_separator THEN p + 3 ELSE p + 2
             d == DigitsValue(SubSeq(s, q, q + 1))
         IN  IF y >= 1 /\ m \in 1..12 /\ d >= 1 /\ d <= DaysInMonth(y, m)
             THEN [ok |-> TRUE, ord |-> Ordinal(y, m, d)]
             ELSE NoDate
    ELSE NoDate

\* The week form YYYY-Www[-D] or YYYYWww[D], read from the character after the W.
WeekDate(s, y, uses_separator, p) ==
    IF ~AsciiDigits(s, p, 2) THEN NoDate
    ELSE LET week == DigitsValue(SubSeq(s, p, p + 1))
         IN  IF p + 1 < Len(s)
             THEN LET q == IF uses_separator THEN p + 3 ELSE p + 2
                  IN  IF /\ uses_separator => CharAt(s, p + 2) = CharHyphen
                         /\ AsciiDigits(s, q, 1)
                      THEN IsoToDate(y, week, DigitsValue(SubSeq(s, q, q)))
                      ELSE NoDate
             ELSE IsoToDate(y, week, 1)

\* date.fromisoformat(value) of Python 3.11 and later: a str of 7, 8 or 10 bytes
\* in the calendar or the week form, with or without separators; what follows the
\* parsed date is not read.  Any other value raises ValueError.
FromIsoFormat(s) ==
    IF Utf8Size(s) \in {7, 8, 10} /\ AsciiDigits(s, 1, 4)
    THEN LET y == DigitsValue(SubSeq(s, 1, 4))
             uses_separator == CharAt(s, 5) = CharHyphen
             p == IF uses_separator THEN 6 ELSE 5
         IN  IF CharAt(s, p) = CharW
             THEN WeekDate(s, y, uses_separator, p + 1)
             ELSE CalendarDate(s, y, uses_separator, p)
    ELSE NoDate

\* QueryDict.get(key): the last value given, or absent.
HasParam(values) == values /= <<>>
LastValue(values) == values[Len(values)]

(***************************************************************************)
(* views.py helpers.                                                       *)
(***************************************************************************)
RECURSIVE _parse_int_list(_)
_parse_int_list(values) ==
    IF values = <<>> THEN <<>>
    ELSE LET p == IntOfStr(Head(values))
         IN  IF p.ok THEN <<p.val>> \o _parse_int_list(Tail(values))
             ELSE _parse_int_list(Tail(values))

\* _parse_date(request.GET.get(key)): None (NoDate) for an absent key (TypeError)
\* and for a value fromisoformat rejects (ValueError).
_parse_date(values) ==
    IF HasParam(values) THEN FromIsoFormat(LastValue(values)) ELSE NoDate

(***************************************************************************)
(* Permissions (views.py WALLET_PERMISSIONS, auth_hooks.py render).         *)
(***************************************************************************)
WALLET_PERMISSIONS ==
    << "corptools.own_corp_manager",
       "corptools.alliance_corp_manager",
       "corptools.state_corp_manager",
       "corptools.global_corp_manager",
       "corptools.holding_corp_wallets" >>

\* Mutant: the menu's list without the holding-corporation permission.
MenuPermissionsShort ==
    << "corptools.own_corp_manager",
       "corptools.alliance_corp_manager",
       "corptools.state_corp_manager",
       "corptools.global_corp_manager" >>

\* The list FinancesMenuItem.render tests.
MenuPermissions ==
    << "corptools.own_corp_manager",
       "corptools.alliance_corp_manager",
       "corptools.state_corp_manager",
       "corptools.global_corp_manager",
       "corptools.holding_corp_wallets" >>

\* user.has_perm(perm), user being the set of permissions the user holds.
HasPerm(user, perm) == perm \in user

\* Mutant: all() in place of any().
_user_can_view_wallets_all(user) ==
    \A i \in 1..Len(WALLET_PERMISSIONS) : HasPerm(user, WALLET_PERMISSIONS[i])

_user_can_view_wallets(user) ==
    \E i \in 1..Len(WALLET_PERMISSIONS) : HasPerm(user, WALLET_PERMISSIONS[i])

\* The test of FinancesMenuItem.render.
MenuVisible(user) ==
    \E i \in 1..Len(MenuPermissions) : HasPerm(user, MenuPermissions[i])

(***************************************************************************)
(* The host's data: divisions and journal entries (corptools models).      *)
(***************************************************************************)
\* The CorporationWalletDivision rows, in the order
\* order_by("corporation__corporation__corporation_name", "division") gives.
DivisionTable ==
    << [id |-> 1, corp_name |-> "Alpha Corp", division |-> 1, name |-> "Master", balance |-> 500000],
       [id |-> 2, corp_name |-> "Alpha Corp", division |-> 2, name |-> "", balance |-> 1200],
       [id |-> 3, corp_name |-> "Beta Corp", division |-> 1, name |-> "Master", balance |-> 99] >>

\* CorporationWalletDivision.get_visible(user)...order_by(...)
AllDivisions(visible) == SelectSeq(DivisionTable, LAMBDA d : d.id \in visible)

\* CorporationWalletJournalEntry.get_visible(user): the rows the host shows the user.
VisibleEntries(rows) == {e \in rows : ~e.hidden}

RECURSIVE SumAmount(_)
\* Sum("amount") over a set of rows (0 for none, as Coalesce gives).
SumAmount(rows) ==
    IF rows = {} THEN 0
    ELSE LET e == CHOOSE x \in rows : TRUE
         IN  e.amount + SumAmount(rows \ {e})

Abs(x) == IF x < 0 THEN 0 - x ELSE x

(***************************************************************************)
(* Datetimes.                                                              *)
(***************************************************************************)
\* datetime.date() of an aware datetime: the calendar day at its own offset.
DateOf(dt) == (dt.t + dt.off) \div TicksPerDay

\* TruncDate("date"): the calendar day of a stored instant in the current timezone.
TruncDate(t) == (t + tzOffset) \div TicksPerDay

\* timezone.make_aware(datetime.combine(day, time.min), tz)
DayStart(day, off) == [t |-> day * TicksPerDay - off, off |-> off]

\* timezone.make_aware(datetime.combine(day, time.max), tz)
DayEnd(day, off) == [t |-> day * TicksPerDay + (TicksPerDay - 1) - off, off |-> off]

\* Two digits / four digits of a number, zero padded.
Digits2(n) == <<CharZero + ((n \div 10) % 10), CharZero + (n % 10)>>
Digits4(n) == Digits2(n \div 100) \o Digits2(n % 100)

\* The year of the ordinal: whole 400-, 100-, 4- and 1-year cycles before it.
YearOf(ord) ==
    LET n0 == ord - 1
        n400 == n0 \div 146097
        r400 == n0 % 146097
        n100 == r400 \div 36524
        r100 == r400 % 36524
        n4 == r100 \div 1461
        r4 == r100 % 1461
        n1 == r4 \div 365
        year == n400 * 400 + n100 * 100 + n4 * 4 + n1 + 1
    IN  IF n1 = 4 \/ n100 = 4 THEN year - 1 ELSE year

MonthOf(y, day_of_year) ==
    CHOOSE m \in 1..12 :
        /\ DaysBeforeMonth(y, m) < day_of_year
        /\ day_of_year <= DaysBeforeMonth(y, m) + DaysInMonth(y, m)

\* date.fromordinal(ord).isoformat()
IsoFormat(ord) ==
    LET y == YearOf(ord)
        rest == ord - DaysBeforeYear(y)
        m == MonthOf(y, rest)
        d == rest - DaysBeforeMonth(y, m)
    IN  Digits4(y) \o <<CharHyphen>> \o Digits2(m) \o <<CharHyphen>> \o Digits2(d)

(***************************************************************************)
(* _series_stats and _build_daily_series.                                  *)
(***************************************************************************)
RECURSIVE RangeSum(_, _, _)
\* values[lo] + ... + values[hi], halving the range to keep the evaluation shallow.
RangeSum(values, lo, hi) ==
    IF lo > hi THEN 0
    ELSE IF lo = hi THEN values[lo]
    ELSE LET mid == (lo + hi) \div 2
         IN  RangeSum(values, lo, mid) + RangeSum(values, mid + 1, hi)

\* sum(values, Decimal("0.00"))
SeqSum(values) == RangeSum(values, 1, Len(values))

SeqMax(values) ==
    CHOOSE v \in {values[i] : i \in 1..Len(values)} :
        \A i \in 1..Len(values) : values[i] <= v

\* values.index(v): the first position of v, counted from 0.
SeqIndex(values, v) ==
    (CHOOSE i \in 1..Len(values) :
        values[i] = v /\ \A j \in 1..(i - 1) : values[j] /= v) - 1

NoDay == -1

\* avg is the exact quotient total / days, kept as the pair [num, den].
_series_stats(values, start_day) ==
    IF values = <<>>
    THEN [total |-> 0, avg |-> [num |-> 0, den |-> 1], max |-> 0,
          max_date |-> NoDay, active_days |-> 0, days |-> 0]
    ELSE LET total == SeqSum(values)
             days == Len(values)
             max_value == SeqMax(values)
             max_index == SeqIndex(values, max_value)
         IN  [total |-> total,
              avg |-> [num |-> total, den |-> days],
              max |-> max_value,
              max_date |-> IF max_value > 0 THEN start_day + max_index ELSE NoDay,
              active_days |-> Cardinality({i \in 1..Len(values) : values[i] > 0}),
              days |-> days]

\* The day's total in totals_by_day, or Decimal("0.00") for a day with no row.
DayTotal(entries, day) == SumAmount({e \in entries : TruncDate(e.date) = day})

\* The value appended for the day `offset` days after the start day.
SeriesValue(entries, start_day, offset, abs_values) ==
    LET total == DayTotal(entries, start_day + offset)
    IN  IF abs_values THEN Abs(total) ELSE total

\* Mutant: range(days_count) in place of range(days_count + 1).
_build_daily_series_short(entries, start_date, end_date, abs_values) ==
    LET start_day == DateOf(start_date)
        days_count == DateOf(end_date) - start_day
        values == [i \in 1..days_count |->
                      SeriesValue(entries, start_day, i - 1, abs_values)]
        points == [i \in 1..days_count |->
                      [date |-> IsoFormat(start_day + (i - 1)), total |-> values[i]]]
    IN  [points |-> points, stats |-> _series_stats(values, start_day)]

_build_daily_series(entries, start_date, end_date, abs_values) ==
    LET start_day == DateOf(start_date)
        days_count == DateOf(end_date) - start_day
        values == [i \in 1..(days_count + 1) |->
                      SeriesValue(entries, start_day, i - 1, abs_values)]
        points == [i \in 1..(days_count + 1) |->
                      [date |-> IsoFormat(start_day + (i - 1)), total |-> values[i]]]
    IN  [points |-> points, stats |-> _series_stats(values, start_day)]

(***************************************************************************)
(* dashboard, section by section.                                          *)
(***************************************************************************)
InSeq(x, s) == \E i \in 1..Len(s) : s[i] = x

SeqSet(s) == {s[i] : i \in 1..Len(s)}

days_options == <<7, 30, 60, 90, 180, 365>>

DefaultDays == 30

\* Mutant: no `if days not in days_options`.
ParseDaysUnchecked(values) ==
    LET p == IF HasParam(values) THEN IntOfStr(LastValue(values))
             ELSE [ok |-> TRUE, val |-> DefaultDays]
    IN  IF p.ok THEN p.val ELSE DefaultDays

\* int(request.GET.get("days", 30)), 30 where int raises; then 30 unless listed.
ParseDays(values) ==
    LET p == IF HasParam(values) THEN IntOfStr(LastValue(values))
             ELSE [ok |-> TRUE, val |-> DefaultDays]
        days == IF p.ok THEN p.val ELSE DefaultDays
    IN  IF InSeq(days, days_options) THEN days ELSE DefaultDays

\* timezone.now(): an aware datetime in UTC.
TimezoneNow == [t |-> now, off |-> 0]

\* end_date after the clamp `if end_date > now: end_date = now`.  end_date is the
\* last microsecond of a day, the end of the tick end_date.t, so it is later than
\* now unless now is in a later tick.
ClampEnd(end_date) == IF end_date.t >= now THEN TimezoneNow ELSE end_date

\* The window: start_date, end_date, and the custom dates (NoDay for None).
Window(req, days) ==
    LET parsed_start == _parse_date(req.start_date)
        parsed_end == _parse_date(req.end_date)
    IN  IF parsed_start.ok \/ parsed_end.ok
        THEN LET start0 == IF parsed_start.ok THEN parsed_start.ord ELSE parsed_end.ord
                 end0 == IF parsed_end.ok THEN parsed_end.ord ELSE start0
                 custom_start == IF start0 > end0 THEN end0 ELSE start0
                 custom_end == IF start0 > end0 THEN start0 ELSE end0
             IN  [start_date |-> DayStart(custom_start, tzOffset),
                  end_date |-> ClampEnd(DayEnd(custom_end, tzOffset)),
                  custom_start |-> custom_start,
                  custom_end |-> custom_end]
        ELSE [start_date |-> [t |-> now - days * TicksPerDay, off |-> 0],
              end_date |-> TimezoneNow,
              custom_start |-> NoDay,
              custom_end |-> NoDay]

Ids(divisions) == [i \in 1..Len(divisions) |-> divisions[i].id]

\* The evaluations of the division querysets, in the order the view makes them:
\* division_ids (line 167), the fallback ids (170), the loop over
\* selected_divisions_qs (273), and context["divisions"] in the template.
DivisionReads == <<"division_ids", "all_division_ids", "division_rows", "divisions">>

\* The ids CorporationWalletDivision.get_visible(user) holds when the view makes
\* the evaluation r, other clients doing c.
Visible(r, c) == c.divs[r]

\* Lines 161-170: division_ids, and the ids selected_divisions_qs filters on
\* (<<>> when it is all_divisions, by default or by the fallback).
SelectDivisions(values, c) ==
    LET selected_divisions == _parse_int_list(values)
        all_divisions == AllDivisions(Visible("division_ids", c))
        qs == IF selected_divisions /= <<>>
              THEN SelectSeq(all_divisions, LAMBDA d : InSeq(d.id, selected_divisions))
              ELSE all_divisions
    IN  IF Ids(qs) = <<>>
        THEN [id__in |-> <<>>,
              division_ids |-> Ids(AllDivisions(Visible("all_division_ids", c)))]
        ELSE [id__in |-> selected_divisions, division_ids |-> Ids(qs)]

\* selected_divisions_qs as the loop at line 273 evaluates it.
SelectedDivisionsQs(selection, c) ==
    LET all_divisions == AllDivisions(Visible("division_rows", c))
    IN  IF selection.id__in /= <<>>
        THEN SelectSeq(all_divisions, LAMBDA d : InSeq(d.id, selection.id__in))
        ELSE all_divisions

\* context["divisions"]: all_divisions as the template evaluates it.  When
\* selected_divisions_qs is all_divisions itself, the loop at line 273 has
\* evaluated this queryset and the template reads its cached result.
TemplateDivisions(selection, c) ==
    IF selection.id__in /= <<>>
    THEN AllDivisions(Visible("divisions", c))
    ELSE AllDivisions(Visible("division_rows", c))

\* CorporationWalletJournalEntry.get_visible(user).filter(date__gte, date__lte, division_id__in)
WindowEntries(rows, start_date, end_date, division_ids) ==
    {e \in VisibleEntries(rows) :
        /\ e.date >= start_date.t
        /\ e.date <= end_date.t
        /\ InSeq(e.division_id, division_ids)}

\* The queries of dashboard that read the journal, in the order the view runs them:
\* lines 178, 195, 222, 225, 229, 237, 246, 249, 255, 344, 406, 407, 408.
JournalQueries ==
    << "ref_type_options", "expense_ref_type_options", "income_total", "expense_total",
       "income_by_ref", "expense_by_ref", "income_series", "expense_series",
       "division_totals", "drill_rows", "entry_count", "income_count",
       "expense_count" >>

\* The position of each query in that order.
QueryIndexTable ==
    [q \in SeqSet(JournalQueries) |->
        CHOOSE i \in 1..Len(JournalQueries) : JournalQueries[i] = q]

QueryIndex(q) == QueryIndexTable[q]

\* No other client writes while the request runs.
NoOtherClient ==
    [commits |-> {}, divs |-> [r \in SeqSet(DivisionReads) |-> visibleDivs]]

\* The journal the query q reads: the rows other clients committed before q or
\* an earlier query are in it.
Seen(q, c) ==
    journal \cup {k.row : k \in {x \in c.commits : QueryIndex(x.before) <= QueryIndex(q)}}

\* The queryset `entries`, evaluated by the query q.
EntriesOf(q, c, window, division_ids) ==
    WindowEntries(Seen(q, c), window.start_date, window.end_date, division_ids)

\* The reference types of the host, in the order order_by("ref_type") gives.
RefTypeOrder ==
    << "bounty_prizes", "corporation_account_withdrawal", "market_escrow",
       "player_donation" >>

\* entries.filter(...).values_list("ref_type", flat=True).distinct().order_by("ref_type")
RefTypeOptions(rows) ==
    SelectSeq(RefTypeOrder, LAMBDA r : \E e \in rows : e.ref_type = r)

Income(entries) == {e \in entries : e.amount > 0}

Expense(entries) == {e \in entries : e.amount < 0}

\* Mutant: the whole request is kept as soon as one requested type is an option.
SelectRefTypesKeepAll(requested, options) ==
    IF \E i \in 1..Len(requested) : InSeq(requested[i], options)
    THEN requested ELSE options

\* The requested types that are options, or every option when none is left.
SelectRefTypes(requested, options) ==
    LET kept == IF requested /= <<>>
                THEN SelectSeq(requested, LAMBDA r : InSeq(r, options))
                ELSE requested
    IN  IF kept = <<>> THEN options ELSE kept

\* `if selected: rows = rows.filter(ref_type__in=selected)`
FilterRefTypes(rows, selected) ==
    IF selected /= <<>> THEN {e \in rows : InSeq(e.ref_type, selected)} ELSE rows

\* The queryset `income_entries`, evaluated by the query q.
IncomeEntriesOf(q, c, window, division_ids, selected_ref_types) ==
    FilterRefTypes(Income(EntriesOf(q, c, window, division_ids)), selected_ref_types)

\* The queryset `expense_entries`, evaluated by the query q.
ExpenseEntriesOf(q, c, window, division_ids, selected_expense_ref_types) ==
    FilterRefTypes(Expense(EntriesOf(q, c, window, division_ids)),
                   selected_expense_ref_types)

RECURSIVE OrderByTotal(_, _)
\* order_by("total") for sign 1, order_by("-total") for sign -1.
OrderByTotal(rows, sign) ==
    IF rows = {} THEN <<>>
    ELSE LET r == CHOOSE x \in rows : \A y \in rows : sign * x.total <= sign * y.total
         IN  <<r>> \o OrderByTotal(rows \ {r}, sign)

\* rows.values("ref_type").annotate(total=Sum("amount"), count=Count("id")).order_by(...)
ByRef(rows, sign) ==
    OrderByTotal(
        {[ref_type |-> r,
          total |-> SumAmount({e \in rows : e.ref_type = r}),
          total_abs |-> Abs(SumAmount({e \in rows : e.ref_type = r})),
          count |-> Cardinality({e \in rows : e.ref_type = r})] :
            r \in {e.ref_type : e \in rows}},
        sign)

\* Sum("amount", filter=Q(amount__gt=0, ref_type__in=selected)) over a division's rows.
DivisionIncome(entries, division_id, selected) ==
    SumAmount({e \in entries : /\ e.division_id = division_id
                               /\ e.amount > 0
                               /\ InSeq(e.ref_type, selected)})

DivisionExpenses(entries, division_id, selected) ==
    SumAmount({e \in entries : /\ e.division_id = division_id
                               /\ e.amount < 0
                               /\ InSeq(e.ref_type, selected)})

\* One row of division_rows; a division without entries has no totals row and gets zeros.
DivisionRow(division, entries, selected_ref_types, selected_expense_ref_types) ==
    LET has_totals == \E e \in entries : e.division_id = division.id
        income == IF has_totals
                  THEN DivisionIncome(entries, division.id, selected_ref_types)
                  ELSE 0
        expenses == IF has_totals
                    THEN DivisionExpenses(entries, division.id, selected_expense_ref_types)
                    ELSE 0
    IN  [corp_name |-> division.corp_name,
         division |-> division.division,
         name |-> division.name,
         balance |-> division.balance,
         income |-> income,
         expenses |-> expenses,
         net |-> income + expenses,
         division_id |-> division.id]

DivisionRows(divisions, entries, selected_ref_types, selected_expense_ref_types) ==
    [i \in 1..Len(divisions) |->
        DivisionRow(divisions[i], entries, selected_ref_types, selected_expense_ref_types)]

RECURSIVE OrderByDateDesc(_)
\* order_by("-date")
OrderByDateDesc(rows) ==
    IF rows = {} THEN <<>>
    ELSE LET e == CHOOSE x \in rows : \A y \in rows : y.date <= x.date
         IN  <<e>> \o OrderByDateDesc(rows \ {e})

\* request.GET.get(key, ""): the last value given, or the empty text.
GetText(values) == IF HasParam(values) THEN LastValue(values) ELSE <<>>

\* request.GET.get(key, ""): the last value given, or the empty string.
GetStr(values) == IF HasParam(values) THEN LastValue(values) ELSE ""

\* The rows the summary counts: income of a selected type, expense of a selected type.
Counted(e, selected_ref_types, selected_expense_ref_types) ==
    \/ e.amount > 0 /\ InSeq(e.ref_type, selected_ref_types)
    \/ e.amount < 0 /\ InSeq(e.ref_type, selected_expense_ref_types)

\* drill_qs after the branch on drill_type.
DrillQs(drill_type, req, entries, selected_ref_types, selected_expense_ref_types, division_ids) ==
    IF drill_type = "income_ref"
    THEN IF InSeq(GetStr(req.ref_type), selected_ref_types)
         THEN {e \in entries : e.amount > 0 /\ e.ref_type = GetStr(req.ref_type)}
         ELSE {}
    ELSE IF drill_type = "expense_ref"
    THEN IF InSeq(GetStr(req.ref_type), selected_expense_ref_types)
         THEN {e \in entries : e.amount < 0 /\ e.ref_type = GetStr(req.ref_type)}
         ELSE {}
    ELSE IF drill_type = "division"
    THEN LET division_id == IntOfStr(GetText(req.division_id))
         IN  IF division_id.ok /\ division_id.val /= 0
                /\ InSeq(division_id.val, division_ids)
             THEN {e \in entries :
                      /\ e.division_id = division_id.val
                      /\ Counted(e, selected_ref_types, selected_expense_ref_types)}
             ELSE {}
    ELSE entries

\* drill_title, as its parts: the label formatting is left to the template layer.
DrillTitle(drill_type, req, selected_ref_types, selected_expense_ref_types, division_ids, division_rows) ==
    IF drill_type = "income_ref" /\ InSeq(GetStr(req.ref_type), selected_ref_types)
    THEN <<"Income", GetStr(req.ref_type)>>
    ELSE IF drill_type = "expense_ref"
            /\ InSeq(GetStr(req.ref_type), selected_expense_ref_types)
    THEN <<"Expenses", GetStr(req.ref_type)>>
    ELSE IF drill_type = "division"
    THEN LET division_id == IntOfStr(GetText(req.division_id))
         IN  IF division_id.ok /\ division_id.val /= 0
                /\ InSeq(division_id.val, division_ids)
             THEN LET match == SelectSeq(division_rows,
                                         LAMBDA row : row.division_id = division_id.val)
                  IN  IF match /= <<>>
                      THEN <<"Division", match[1].corp_name, match[1].division,
                             match[1].name>>
                      ELSE <<"Division">>
             ELSE <<>>
    ELSE <<>>

\* _clean_query_params(request, ["drill", "ref_type", "division_id"])
_clean_query_params(req) ==
    [req EXCEPT !.drill = <<>>, !.ref_type = <<>>, !.division_id = <<>>]

NoDrilldown == [present |-> FALSE]

\* drilldown: None unless a non-empty drill is given.
Drilldown(req, entries, selected_ref_types, selected_expense_ref_types, division_ids, division_rows) ==
    IF GetStr(req.drill) = "" THEN NoDrilldown
    ELSE LET drill_type == GetStr(req.drill)
             drill_rows == OrderByDateDesc(
                               DrillQs(drill_type, req, entries, selected_ref_types,
                                       selected_expense_ref_types, division_ids))
         IN  [present |-> TRUE,
              title |-> DrillTitle(drill_type, req, selected_ref_types,
                                   selected_expense_ref_types, division_ids,
                                   division_rows),
              rows |-> drill_rows,
              count |-> Len(drill_rows),
              clear_query |-> _clean_query_params(req)]

(***************************************************************************)
(* The body of dashboard after the permission check.  Each operator below  *)
(* takes the local variables computed so far as parameters and computes    *)
(* the next ones, in the order of the code; c is what other clients do.    *)
(***************************************************************************)
\* summary (lines 401-409): the two aggregates and the three counts.
Summary(c, window, division_ids, selected_ref_types, selected_expense_ref_types) ==
    [income_total |->
         SumAmount(IncomeEntriesOf("income_total", c, window, division_ids,
                                  selected_ref_types)),
     expense_total |->
         SumAmount(ExpenseEntriesOf("expense_total", c, window, division_ids,
                                   selected_expense_ref_types)),
     expense_total_abs |->
         Abs(SumAmount(ExpenseEntriesOf("expense_total", c, window, division_ids,
                                       selected_expense_ref_types))),
     net_total |->
         SumAmount(IncomeEntriesOf("income_total", c, window, division_ids,
                                  selected_ref_types))
         + SumAmount(ExpenseEntriesOf("expense_total", c, window, division_ids,
                                     selected_expense_ref_types)),
     entry_count |-> Cardinality(EntriesOf("entry_count", c, window, division_ids)),
     income_count |->
         Cardinality(IncomeEntriesOf("income_count", c, window, division_ids,
                                    selected_ref_types)),
     expense_count |->
         Cardinality(ExpenseEntriesOf("expense_count", c, window, division_ids,
                                     selected_expense_ref_types))]

\* The context dictionary (lines 387-417), with the series and the drilldown.
RenderContext(req, days, window, selection, c, ref_type_options, expense_ref_type_options, selected_ref_types, selected_expense_ref_types, division_rows) ==
    LET income_series ==
            _build_daily_series(
                IncomeEntriesOf("income_series", c, window, selection.division_ids,
                               selected_ref_types),
                window.start_date, window.end_date, FALSE)
        expense_series ==
            _build_daily_series(
                ExpenseEntriesOf("expense_series", c, window, selection.division_ids,
                                selected_expense_ref_types),
                window.start_date, window.end_date, TRUE)
    IN  [status |-> "ok",
         queried |-> TRUE,
         days |-> days,
         days_options |-> days_options,
         start_date |-> window.start_date,
         end_date |-> window.end_date,
         custom_start_value |-> IF window.custom_start /= NoDay
                                THEN IsoFormat(window.custom_start) ELSE <<>>,
         custom_end_value |-> IF window.custom_end /= NoDay
                              THEN IsoFormat(window.custom_end) ELSE <<>>,
         division_rows |-> division_rows,
         division_ids |-> SeqSet(selection.division_ids),
         divisions |-> TemplateDivisions(selection, c),
         ref_type_choices |-> ref_type_options,
         selected_ref_types |-> SeqSet(selected_ref_types),
         expense_ref_type_choices |-> expense_ref_type_options,
         selected_expense_ref_types |-> SeqSet(selected_expense_ref_types),
         summary |-> Summary(c, window, selection.division_ids, selected_ref_types,
                             selected_expense_ref_types),
         income_by_ref |->
             ByRef(IncomeEntriesOf("income_by_ref", c, window,
                                  selection.division_ids, selected_ref_types), -1),
         expense_by_ref |->
             ByRef(ExpenseEntriesOf("expense_by_ref", c, window,
                                   selection.division_ids,
                                   selected_expense_ref_types), 1),
         income_series |-> income_series.points,
         expense_series |-> expense_series.points,
         income_stats |-> income_series.stats,
         expense_stats |-> expense_series.stats,
         drilldown |-> Drilldown(req,
                                 EntriesOf("drill_rows", c, window,
                                          selection.division_ids),
                                 selected_ref_types, selected_expense_ref_types,
                                 selection.division_ids, division_rows)]

\* division_totals and division_rows (lines 253-288).
ContextOfSelection(req, days, window, selection, c, ref_type_options, expense_ref_type_options, selected_ref_types, selected_expense_ref_types) ==
    RenderContext(req, days, window, selection, c,
                  ref_type_options, expense_ref_type_options,
                  selected_ref_types, selected_expense_ref_types,
                  DivisionRows(SelectedDivisionsQs(selection, c),
                               EntriesOf("division_totals", c, window,
                                         selection.division_ids),
                               selected_ref_types, selected_expense_ref_types))

\* selected_ref_types and selected_expense_ref_types (lines 189-193, 206-212).
ContextOfEntries(req, days, window, selection, c, ref_type_options, expense_ref_type_options) ==
    ContextOfSelection(req, days, window, selection, c,
                       ref_type_options, expense_ref_type_options,
                       SelectRefTypes(req.ref_types, ref_type_options),
                       SelectRefTypes(req.expense_ref_types, expense_ref_type_options))

\* entries and the two lists of options (lines 172-183, 195-200).
ContextOfDivisions(req, days, window, selection, c) ==
    ContextOfEntries(req, days, window, selection, c,
                     RefTypeOptions(Income(EntriesOf("ref_type_options", c, window,
                                                     selection.division_ids))),
                     RefTypeOptions(Expense(EntriesOf("expense_ref_type_options", c,
                                                      window,
                                                      selection.division_ids))))

\* selected_divisions, selected_divisions_qs and division_ids (lines 161-170).
ContextOfWindow(req, days, window, c) ==
    ContextOfDivisions(req, days, window, SelectDivisions(req.divisions, c), c)

\* days and the window (lines 128-153).
ContextOfDays(req, days, c) == ContextOfWindow(req, days, Window(req, days), c)

\* The context dashboard renders for a user who passed the permission check.
Context(req, c) == ContextOfDays(req, ParseDays(req.days), c)

\* login_required: an anonymous user is redirected to the login page, and the
\* body of the view does not run.
LoginRedirect == [status |-> "redirect", queried |-> FALSE]

\* raise PermissionDenied: no query is made and nothing is rendered.
Denied == [status |-> "denied", queried |-> FALSE]

\* dashboard(request), under its login_required decorator.
DashboardView(req, c) ==
    IF ~authenticated THEN LoginRedirect
    ELSE IF ~_user_can_view_wallets(perms) THEN Denied
    ELSE Context(req, c)

\* FinancesMenuItem.render(request): the rendered item, or "".
MenuRenderView ==
    IF MenuVisible(perms) THEN [status |-> "menu", html |-> "menu_item"]
    ELSE [status |-> "menu", html |-> ""]

(***************************************************************************)
(* The environment and the requests the model draws from.                  *)
(***************************************************************************)
Today == Ordinal(2024, 3, 10)

\* The instant `tick` ticks into the day `offset` days from Today (UTC).
At(offset, tick) == (Today + offset) * TicksPerDay + tick

\* timezone.now() of the request: late on Today (UTC).
NowTick == At(0, TicksPerDay - 1)

\* Every tick of Today (UTC).
Nows == {At(0, k) : k \in 0..(TicksPerDay - 1)}

\* A value of more digits than int() converts.
TooManyDigits == [i \in 1..(IntMaxStrDigits + 1) |-> CharZero + 1]

EntryPool ==
    { [id |-> 1, date |-> At(0, TicksPerDay - 1), amount |-> 10000,
       ref_type |-> "bounty_prizes", division_id |-> 1, hidden |-> FALSE],
      [id |-> 2, date |-> At(-1, 1), amount |-> -4000,
       ref_type |-> "market_escrow", division_id |-> 1, hidden |-> FALSE],
      [id |-> 3, date |-> At(-7, TicksPerDay - 1), amount |-> 700,
       ref_type |-> "player_donation", division_id |-> 2, hidden |-> FALSE],
      [id |-> 4, date |-> At(-1, 2), amount |-> 100000,
       ref_type |-> "bounty_prizes", division_id |-> 3, hidden |-> FALSE],
      [id |-> 5, date |-> At(-2, 2), amount |-> 0,
       ref_type |-> "corporation_account_withdrawal", division_id |-> 1, hidden |-> FALSE],
      [id |-> 6, date |-> At(-2, 0), amount |-> -500,
       ref_type |-> "bounty_prizes", division_id |-> 2, hidden |-> FALSE],
      [id |-> 7, date |-> At(-1, 0), amount |-> 50000,
       ref_type |-> "player_donation", division_id |-> 1, hidden |-> TRUE],
      [id |-> 8, date |-> At(-2, 1), amount |-> 300,
       ref_type |-> "bounty_prizes", division_id |-> 2, hidden |-> FALSE] }

Journals == {j \in SUBSET EntryPool : Cardinality(j) <= MaxEntries}

TzOffsets == {-1, 0, 1}

AllPermissions == SeqSet(WALLET_PERMISSIONS) \cup {"corptools.view_characters"}

EmptyRequest ==
    [days |-> <<>>, start_date |-> <<>>, end_date |-> <<>>, divisions |-> <<>>,
     ref_types |-> <<>>, expense_ref_types |-> <<>>, drill |-> <<>>,
     ref_type |-> <<>>, division_id |-> <<>>]

\* A request for the seven-day window.
WeekRequest == [EmptyRequest EXCEPT !.days = << Text(<<"7">>) >>]

\* Sequences over `values` of length at most n.
RECURSIVE SeqsUpTo(_, _)
SeqsUpTo(values, n) ==
    IF n = 0 THEN {<<>>}
    ELSE LET shorter == SeqsUpTo(values, n - 1)
         IN  shorter \cup {Append(s, v) : s \in shorter, v \in values}

DaysValues ==
    { <<>>,
      << Text(<<"7">>) >>,
      << Text(<<"8">>) >>,
      << Text(<<"a", "b", "c">>) >>,
      << <<>> >>,
      << Text(<<" ", "6", "0", " ">>) >>,
      << Text(<<"3", "_", "0">>) >>,
      << Text(<<"+", "7">>) >>,
      << Text(<<"-", "7">>) >>,
      << Text(<<"7", ".", "0">>) >>,
      << <<9, 55, 10>> >>,
      << <<1639>> >>,
      << <<28, 55>> >>,
      << TooManyDigits >>,
      << Text(<<"3", "0">>), Text(<<"7">>) >> }

DateValues ==
    { <<>>,
      << Text(<<"2", "0", "2", "4", "-", "0", "3", "-", "0", "8">>) >>,
      << Text(<<"2", "0", "2", "4", "-", "0", "3", "-", "1", "0">>) >>,
      << Text(<<"2", "0", "2", "4", "-", "0", "3", "-", "1", "1">>) >>,
      << Text(<<"2", "0", "2", "4", "-", "0", "2", "-", "3", "0">>) >>,
      << Text(<<"t", "o", "d", "a", "y">>) >> }

\* The other forms fromisoformat reads: basic, week, week with weekday, a date
\* followed by unread characters, and a week the year does not have.
DateForms ==
    { << Text(<<"2", "0", "2", "4", "0", "3", "0", "8">>) >>,
      << Text(<<"2", "0", "2", "4", "-", "W", "1", "0">>) >>,
      << Text(<<"2", "0", "2", "4", "-", "W", "1", "0", "-", "7">>) >>,
      << Text(<<"2", "0", "2", "4", "W", "1", "0", "6">>) >>,
      << Text(<<"2", "0", "2", "4", "0", "3", "0", "9", "x">>) \o <<233>> >>,
      << Text(<<"2", "0", "2", "4", "-", "W", "5", "3", "-", "1">>) >>,
      << Text(<<"2", "0", "2", "4", "-", "3", "-", "9">>) >> }

\* Values of 'divisions': the visible divisions 1 and 2 (the latter with a no-break
\* space and a fullwidth digit), the division 3 of another corporation, an id no
\* division has, and a value that is no integer.
DivisionTexts ==
    { Text(<<"1">>), <<160, 65298>>, Text(<<"3">>), Text(<<"9">>), Text(<<"x">>) }

RefTypeTexts == {"bounty_prizes", "player_donation", "market_escrow", "bogus"}

\* Values of 'ref_types' and of 'expense_ref_types'.
IncomeListTexts == {"bounty_prizes", "player_donation", "bogus"}

ExpenseListTexts == {"market_escrow", "bogus"}

DivisionIdValues ==
    { <<>>, << Text(<<"1">>) >>, << Text(<<"2">>) >>, << Text(<<"3">>) >>,
      << Text(<<"0">>) >>, << Text(<<"x">>) >> }

WindowRequests ==
    {[EmptyRequest EXCEPT !.days = d] : d \in DaysValues}
    \cup {[WeekRequest EXCEPT !.start_date = s, !.end_date = e] :
             s \in DateValues, e \in DateValues}
    \cup {[WeekRequest EXCEPT !.start_date = s] : s \in DateForms}

DivisionRequests ==
    {[WeekRequest EXCEPT !.divisions = d] : d \in SeqsUpTo(DivisionTexts, MaxListLen)}

\* A request for the days from 2024-03-08 to 2024-03-10.
DatedRequest ==
    [EmptyRequest EXCEPT
        !.start_date = << Text(<<"2", "0", "2", "4", "-", "0", "3", "-", "0", "8">>) >>,
        !.end_date = << Text(<<"2", "0", "2", "4", "-", "0", "3", "-", "1", "0">>) >>]

RefTypeRequests ==
    {[WeekRequest EXCEPT !.ref_types = r] : r \in SeqsUpTo(IncomeListTexts, MaxListLen)}
    \cup {[DatedRequest EXCEPT !.expense_ref_types = x] :
             x \in SeqsUpTo(ExpenseListTexts, MaxListLen)}

DrillRequests ==
    {[WeekRequest EXCEPT !.drill = <<d>>, !.ref_type = <<r>>, !.ref_types = s,
                         !.expense_ref_types = s] :
        d \in {"income_ref", "expense_ref"}, r \in RefTypeTexts,
        s \in {<<>>, <<"bounty_prizes">>}}
    \cup {[WeekRequest EXCEPT !.drill = d, !.ref_types = s] :
             d \in {<<"">>, <<"entries">>}, s \in {<<>>, <<"bounty_prizes">>}}
    \cup {[WeekRequest EXCEPT !.drill = <<"division">>, !.division_id = i,
                              !.divisions = d] :
             i \in DivisionIdValues, d \in {<<>>, << Text(<<"2">>) >>}}
    \cup {[WeekRequest EXCEPT !.drill = <<"division">>, !.division_id = << Text(<<"2">>) >>,
                              !.ref_types = <<"player_donation">>]}

\* One-value lists of 'divisions', 'ref_types' and 'expense_ref_types'.
ListRequests ==
    {[WeekRequest EXCEPT !.divisions = <<d>>] : d \in DivisionTexts}
    \cup {[WeekRequest EXCEPT !.ref_types = <<r>>] : r \in RefTypeTexts}
    \cup {[WeekRequest EXCEPT !.expense_ref_types = <<r>>] : r \in RefTypeTexts}

Requests == WindowRequests \cup ListRequests \cup DrillRequests

(***************************************************************************)
(* The state machine: one request is served from the initial state; the    *)
(* view keeps nothing between requests.                                    *)
(***************************************************************************)
NoResponse == [status |-> "none"]

\* The users: anonymous (holding nothing), and authenticated with or without a
\* wallet permission.
Users ==
    { [authenticated |-> FALSE, perms |-> {}],
      [authenticated |-> TRUE, perms |-> {}],
      [authenticated |-> TRUE, perms |-> {"corptools.holding_corp_wallets"}] }

Init ==
    /\ \E u \in Users : authenticated = u.authenticated /\ perms = u.perms
    /\ tzOffset \in TzOffsets
    /\ now = NowTick
    /\ visibleDivs \in {{}, {1, 2}}
    /\ journal \in Journals
    /\ commit = NoOtherClient
    /\ served = "none"
    /\ request = EmptyRequest
    /\ response = NoResponse

\* One request to dashboard, other clients doing c while it runs.
Dashboard(req, c) ==
    /\ served = "none"
    /\ \A k \in c.commits : k.row \notin journal
    /\ served' = "dashboard"
    /\ request' = req
    /\ commit' = c
    /\ response' = DashboardView(req, c)
    /\ journal' = journal \cup {k.row : k \in c.commits}
    /\ visibleDivs' = Visible(DivisionReads[Len(DivisionReads)], c)
    /\ UNCHANGED <<perms, authenticated, tzOffset, now>>

MenuRender ==
    /\ served = "none"
    /\ served' = "menu"
    /\ response' = MenuRenderView
    /\ UNCHANGED <<perms, authenticated, tzOffset, now, visibleDivs, journal, commit,
                   request>>

\* The requests served while no other client writes to the database.
Next ==
    \/ served = "none" /\ \E req \in Requests : Dashboard(req, NoOtherClient)
    \/ MenuRender

Spec == Init /\ [][Next]_vars

(***************************************************************************)
(* The window at every time of the day: requests that name days or dates,  *)
(* served at any tick of Today in any timezone, the journal holding no     *)
(* entry dated after the request.                                          *)
(***************************************************************************)
InitClock ==
    /\ authenticated = TRUE
    /\ perms = {"corptools.holding_corp_wallets"}
    /\ tzOffset \in TzOffsets
    /\ now \in Nows
    /\ visibleDivs = {1, 2}
    /\ journal \in {j \in Journals : \A e \in j : e.date <= now}
    /\ commit = NoOtherClient
    /\ served = "none"
    /\ request = EmptyRequest
    /\ response = NoResponse

NextClock ==
    served = "none" /\ \E req \in WindowRequests : Dashboard(req, NoOtherClient)

SpecClock == InitClock /\ [][NextClock]_vars

(***************************************************************************)
(* The permission check over every set of permissions a user may hold,     *)
(* with one database.                                                      *)
(***************************************************************************)
InitAccess ==
    /\ authenticated \in BOOLEAN
    /\ perms \in (IF authenticated THEN SUBSET AllPermissions ELSE {{}})
    /\ tzOffset = 0
    /\ now = NowTick
    /\ visibleDivs = {1, 2}
    /\ journal = {e \in EntryPool : e.id \in {1, 2}}
    /\ commit = NoOtherClient
    /\ served = "none"
    /\ request = EmptyRequest
    /\ response = NoResponse

SpecAccess == InitAccess /\ [][Next]_vars

(***************************************************************************)
(* Requests served while other clients write: they commit journal rows     *)
(* between the queries of the view and change the divisions the user sees  *)
(* between its evaluations of the division querysets.                      *)
(***************************************************************************)
\* The rows other clients have yet to commit.
PendingRows == {e \in EntryPool : e.id \in {1, 2}}

\* The journals the database holds when the request starts.
StoredJournals == SUBSET {e \in EntryPool : e.id \in {3, 8}}

CommitPoints == SeqSet(JournalQueries) \cup {"none"}

\* The commits of the schedule f, which gives every pending row the query before
\* which it is committed, or "none".
CommitsOf(f) ==
    {[row |-> e, before |-> f[e]] : e \in {x \in PendingRows : f[x] /= "none"}}

\* Every way of committing the pending rows during the request.
CommitSchedules == {CommitsOf(f) : f \in [PendingRows -> CommitPoints]}

\* The commits of one row: the income row before any query, or none.
SingleCommits ==
    {CommitsOf([e \in PendingRows |-> IF e.id = 1 THEN q ELSE "none"]) :
        q \in CommitPoints}

\* The sets of divisions the user may see.
DivisionSets == {{}, {1}, {1, 2}, {1, 2, 3}}

\* Every way the visible divisions may change between the evaluations.
DivisionSchedules ==
    {d \in [SeqSet(DivisionReads) -> DivisionSets] : d["division_ids"] = visibleDivs}

\* Division 2 is hidden from the user before the loop over the divisions; a
\* third division becomes visible before the template lists them.
DivisionChanges ==
    { [r \in SeqSet(DivisionReads) |->
          IF r \in {"division_rows", "divisions"} THEN visibleDivs \ {2}
          ELSE visibleDivs],
      [r \in SeqSet(DivisionReads) |->
          IF r = "divisions" THEN visibleDivs \cup {3} ELSE visibleDivs] }

\* What other clients do during a request of SpecConcurrent.
OtherClients ==
    {[commits |-> s, divs |-> NoOtherClient.divs] : s \in CommitSchedules}
    \cup {[commits |-> s, divs |-> d] : s \in SingleCommits, d \in DivisionChanges}

InitConcurrent ==
    /\ authenticated = TRUE
    /\ perms = {"corptools.holding_corp_wallets"}
    /\ tzOffset = 0
    /\ now = NowTick
    /\ visibleDivs = {1, 2}
    /\ journal \in StoredJournals
    /\ commit = NoOtherClient
    /\ served = "none"
    /\ request = EmptyRequest
    /\ response = NoResponse

NextConcurrent ==
    served = "none" /\ \E req \in RefTypeRequests, c \in OtherClients : Dashboard(req, c)

SpecConcurrent == InitConcurrent /\ [][NextConcurrent]_vars

(***************************************************************************)
(* Requests that select divisions, served while the divisions the user     *)
(* sees change.                                                            *)
(***************************************************************************)
\* Drilldowns into one division.
DivisionDrills ==
    {[WeekRequest EXCEPT !.drill = <<"division">>, !.division_id = << i >>,
                         !.divisions = << d >>] :
        i \in {Text(<<"1">>), Text(<<"2">>)}, d \in {Text(<<"2">>), Text(<<"3">>)}}

InitDivisions ==
    /\ authenticated = TRUE
    /\ perms = {"corptools.holding_corp_wallets"}
    /\ tzOffset = 0
    /\ now = NowTick
    /\ visibleDivs = {1, 2}
    /\ journal \in {j \in SUBSET {e \in EntryPool : e.id \in {4, 7, 8}} :
                       Cardinality(j) <= MaxEntries}
    /\ commit = NoOtherClient
    /\ served = "none"
    /\ request = EmptyRequest
    /\ response = NoResponse

NextDivisions ==
    /\ served = "none"
    /\ \E req \in DivisionRequests \cup DivisionDrills, d \in DivisionSchedules :
          \E s \in {{}, CommitsOf([e \in PendingRows |->
                                     IF e.id = 1 THEN "division_totals" ELSE "none"])} :
              Dashboard(req, [commits |-> s, divs |-> d])

SpecDivisions == InitDivisions /\ [][NextDivisions]_vars

\* The same requests while the user's divisions stay as they are: other clients
\* only commit journal rows, any pending row before any query.
NextDivisionsFixed ==
    /\ served = "none"
    /\ \E req \in DivisionRequests \cup DivisionDrills, s \in CommitSchedules :
          Dashboard(req, [commits |-> s, divs |-> NoOtherClient.divs])

SpecDivisionsFixed == InitDivisions /\ [][NextDivisionsFixed]_vars

(***************************************************************************)
(* _build_daily_series on its own: any queryset, any two aware datetimes.  *)
(***************************************************************************)
\* The datetimes the series is built between: UTC or the current timezone.
SeriesInstants ==
    {[t |-> At(d, k), off |-> o] :
        d \in {-2, -1, 0}, k \in {0, TicksPerDay - 1}, o \in {0, tzOffset}}

InitSeries ==
    /\ authenticated = TRUE
    /\ perms = {}
    /\ tzOffset \in TzOffsets
    /\ now = NowTick
    /\ visibleDivs = {1, 2}
    /\ journal \in Journals
    /\ commit = NoOtherClient
    /\ served = "none"
    /\ request = EmptyRequest
    /\ response = NoResponse

BuildSeries(start_date, end_date, abs_values) ==
    /\ served = "none"
    /\ served' = "series"
    /\ request' = [start_date |-> start_date, end_date |-> end_date,
                   abs_values |-> abs_values]
    /\ response' = [status |-> "series",
                    series |-> _build_daily_series(journal, start_date, end_date,
                                                   abs_values)]
    /\ UNCHANGED <<perms, authenticated, tzOffset, now, visibleDivs, journal, commit>>

NextSeries ==
    \E start_date \in SeriesInstants, end_date \in SeriesInstants, abs_values \in BOOLEAN :
        BuildSeries(start_date, end_date, abs_values)

SpecSeries == InitSeries /\ [][NextSeries]_vars

(***************************************************************************)
(* The claims.                                                             *)
(***************************************************************************)
FiveWalletPermissions ==
    {"corptools.own_corp_manager", "corptools.alliance_corp_manager",
     "corptools.state_corp_manager", "corptools.global_corp_manager",
     "corptools.holding_corp_wallets"}

Rendered == served = "dashboard" /\ response.status = "ok"

\* C1, as stated: every user holding none of the five wallet permissions gets
\* PermissionDenied, with no wallet query and no context; a user holding at least
\* one of them passes the check and the view renders.
C1_PermissionGate ==
    served = "dashboard" =>
        IF perms \cap FiveWalletPermissions = {}
        THEN response = [status |-> "denied", queried |-> FALSE]
        ELSE response.status = "ok" /\ response.queried

\* C1, amended: an anonymous user is redirected to the login page; an authenticated
\* user holding none of the five wallet permissions gets PermissionDenied; in both
\* cases no wallet query is made and no context is rendered; an authenticated user
\* holding at least one of the five passes the check and the view renders.
C1_AuthenticatedPermissionGate ==
    served = "dashboard" =>
        IF ~authenticated
        THEN response = [status |-> "redirect", queried |-> FALSE]
        ELSE IF perms \cap FiveWalletPermissions = {}
        THEN response = [status |-> "denied", queried |-> FALSE]
        ELSE response.status = "ok" /\ response.queried

C1_Witness ==
    /\ served = "dashboard"
    /\ authenticated
    /\ perms = {"corptools.view_characters"}
    /\ response.status = "denied"

\* C2: the menu entry is hidden ("") exactly for the users the dashboard denies,
\* and rendered exactly for the users the dashboard admits.
C2_MenuMatchesView ==
    /\ served = "menu" =>
          (response.html = "" <=> ~(authenticated /\ _user_can_view_wallets(perms)))
    /\ served = "dashboard" =>
          /\ response.status = "ok" <=> MenuRenderView.html /= ""
          /\ response.status = "denied" => MenuRenderView.html = ""

C2_Witness ==
    /\ served = "menu"
    /\ perms = {"corptools.view_characters", "corptools.holding_corp_wallets"}
    /\ response.html /= ""

\* The rows of the queryset that fall on calendar day `day` in the current timezone.
RowsOnDay(day) == {e \in journal : TruncDate(e.date) = day}

\* C3: for start_date <= end_date the series has one point per calendar day from
\* the start day to the end day, ascending; a day with entries carries their sum
\* (its absolute value under abs_values) and a day without entries carries 0.
C3_DailySeries ==
    (served = "series" /\ request.start_date.t <= request.end_date.t) =>
        LET start_day == DateOf(request.start_date)
            end_day == DateOf(request.end_date)
            points == response.series.points
        IN  /\ Len(points) = end_day - start_day + 1
            /\ \A i \in 1..Len(points) :
                  /\ FromIsoFormat(points[i].date) =
                         [ok |-> TRUE, ord |-> start_day + (i - 1)]
                  /\ points[i].total =
                         IF RowsOnDay(start_day + (i - 1)) = {} THEN 0
                         ELSE IF request.abs_values
                         THEN Abs(SumAmount(RowsOnDay(start_day + (i - 1))))
                         ELSE SumAmount(RowsOnDay(start_day + (i - 1)))

C3_Witness ==
    /\ served = "series"
    /\ request.start_date.t <= request.end_date.t
    /\ request.abs_values
    /\ Len(response.series.points) = 3
    /\ \E i \in 1..3 :
          /\ Cardinality(RowsOnDay(DateOf(request.start_date) + (i - 1))) = 2
          /\ response.series.points[i].total = 200

\* The ids the 'divisions' values name: those int() accepts.
RequestedDivisionIds ==
    {IntOfStr(request.divisions[i]).val :
        i \in {j \in 1..Len(request.divisions) : IntOfStr(request.divisions[j]).ok}}

\* The journal rows of divisions the user can see, that the user can see.
ReportableEntries == {e \in journal : ~e.hidden /\ e.division_id \in visibleDivs}

DaysList == {7, 30, 60, 90, 180, 365}

\* The integer the 'days' value asks for, if it is one.
AskedDays ==
    IF request.days = <<>> THEN NoInt ELSE IntOfStr(request.days[Len(request.days)])

\* C5: whatever 'days' holds the view renders, and the context's days is in the
\* list: the requested integer when it is listed, 30 otherwise.
C5_DaysInOptions ==
    (served = "dashboard" /\ perms \cap FiveWalletPermissions /= {}) =>
        /\ response.status = "ok"
        /\ response.days \in DaysList
        /\ response.days = IF AskedDays.ok /\ AskedDays.val \in DaysList
                           THEN AskedDays.val ELSE 30

C5_Witness ==
    /\ Rendered
    /\ request.days = << Text(<<"8">>) >>
    /\ response.days = 30

\* The rows among `rows` the report is about: visible, inside the window, of a
\* selected division.
Windowed(rows) ==
    {e \in rows : /\ ~e.hidden
                  /\ e.date >= response.start_date.t
                  /\ e.date <= response.end_date.t
                  /\ e.division_id \in response.division_ids}

\* The entries of the report, in the journal as the request leaves it.
WindowedEntries == Windowed(journal)

\* The journal as it was when the query q of the request ran.
JournalRead(q) ==
    journal \ {k.row : k \in {x \in commit.commits :
                                  QueryIndex(x.before) > QueryIndex(q)}}

IncomeTypes ==
    {e.ref_type : e \in {x \in Windowed(JournalRead("ref_type_options")) : x.amount > 0}}

ExpenseTypes ==
    {e.ref_type :
        e \in {x \in Windowed(JournalRead("expense_ref_type_options")) : x.amount < 0}}

SelectionRule(requested, options, selected) ==
    /\ selected \subseteq options
    /\ selected = IF SeqSet(requested) \cap options /= {}
                  THEN SeqSet(requested) \cap options ELSE options
    /\ options /= {} => selected /= {}

\* C6: the selected income (expense) types are among the types occurring in the
\* windowed positive (negative) entries; requested values that are no option are
\* dropped, and the selection is every option when no requested value is left,
\* so it is empty only when there is no option.  The options are the types of
\* the entries the options query read.
C6_RefTypeSelection ==
    Rendered =>
        /\ SeqSet(response.ref_type_choices) = IncomeTypes
        /\ SeqSet(response.expense_ref_type_choices) = ExpenseTypes
        /\ SelectionRule(request.ref_types, IncomeTypes, response.selected_ref_types)
        /\ SelectionRule(request.expense_ref_types, ExpenseTypes,
                         response.selected_expense_ref_types)
        /\ response.selected_ref_types
               \subseteq {e.ref_type : e \in {x \in WindowedEntries : x.amount > 0}}
        /\ response.selected_expense_ref_types
               \subseteq {e.ref_type : e \in {x \in WindowedEntries : x.amount < 0}}

\* Of two requested types one is an option and one is not, a second option is
\* not requested, and two rows are committed while the request runs: the
\* selection is the one requested option.
C6_Witness ==
    /\ Rendered
    /\ request.ref_types = <<"bounty_prizes", "bogus">>
    /\ Cardinality(commit.commits) = 2
    /\ response.ref_type_choices = <<"bounty_prizes", "player_donation">>
    /\ response.selected_ref_types = {"bounty_prizes"}
    /\ response.selected_expense_ref_types = {"market_escrow"}

\* An entry the summary totals count.
InSummary(e) ==
    /\ e \in WindowedEntries
    /\ \/ e.amount > 0 /\ e.ref_type \in response.selected_ref_types
       \/ e.amount < 0 /\ e.ref_type \in response.selected_expense_ref_types

\* C7: for every non-empty 'drill' each drilldown row is an entry the summary
\* counts; a ref_type outside the selection or a division_id outside division_ids
\* gives no row.
C7_DrillRowsCounted ==
    (Rendered /\ response.drilldown.present) =>
        \A i \in 1..Len(response.drilldown.rows) : InSummary(response.drilldown.rows[i])

\* C8: the window has start_date <= end_date and end_date <= now, whatever the
\* custom dates are.
C8_WindowNormalised ==
    Rendered =>
        /\ response.start_date.t <= response.end_date.t
        /\ response.end_date.t <= now

\* C9: the totals of the daily series equal the summary totals.
C9_SeriesTotals ==
    Rendered =>
        /\ response.income_stats.total = response.summary.income_total
        /\ response.expense_stats.total = response.summary.expense_total_abs

\* C10: division_rows has one row per selected division, zeros for a division
\* without entries, net = income + expenses in each row, and the rows' income and
\* expenses add up to the summary's income_total and expense_total.
C10_DivisionTotals ==
    Rendered =>
        LET rows == response.division_rows
        IN  /\ Len(rows) = Cardinality(response.division_ids)
            /\ {rows[i].division_id : i \in 1..Len(rows)} = response.division_ids
            /\ \A i \in 1..Len(rows) :
                  /\ rows[i].net = rows[i].income + rows[i].expenses
                  /\ (\A e \in WindowedEntries : e.division_id /= rows[i].division_id)
                        => rows[i].income = 0 /\ rows[i].expenses = 0
            /\ SeqSum([i \in 1..Len(rows) |-> rows[i].income])
                   = response.summary.income_total
            /\ SeqSum([i \in 1..Len(rows) |-> rows[i].expenses])
                   = response.summary.expense_total

====
